---- MODULE Spec2Model ----
(***************************************************************************)
(* RedditCrawler (src/reddit_crawler.py): search_posts iterates the        *)
(* configured subreddits, _search_subreddit paginates one subreddit's      *)
(* search listing, _fetch_comments fetches one post's comment tree and     *)
(* _extract_comments_recursive flattens it.  The upstream endpoint is the  *)
(* environment: every response is a nondeterministic choice.  A page's     *)
(* children are drawn one by one when the for loop examines them (the code *)
(* reads nothing of a child before that, except whether the list is empty).*)
(* The parts that work on finished data have specifications of their own:  *)
(* the comment walker on drawn listings (WalkSpec), DataAnalyzer           *)
(* (src/data_analyzer.py, AnalyzerSpec), TopicAnalyzer                     *)
(* (src/topic_analyzer.py, TopicSpec) and SentimentAnalyzer                *)
(* (src/sentiment_analyzer.py, SentimentSpec) on drawn collections.        *)
(***************************************************************************)
EXTENDS Integers, Sequences, FiniteSets, TLC

\* ---------------------------------------------------------------- bounds
MaxForums == 2      \* longest configured subreddit list
MaxLimit == 3       \* largest configured per-subreddit limit
PageSize == 2       \* most children the upstream puts in one page
MaxId == 2          \* submission ids the upstream draws from
MaxTime == 1        \* largest epoch timestamp (in ticks) the upstream reports
MaxDay == 1         \* latest calendar day a configured date names
TicksPerDay == 2    \* clock ticks in one calendar day
MaxCursor == 1      \* distinct non-empty continuation cursors
MaxPosts == 3       \* the upstream offers in-window submissions while fewer are stored
MaxComments == 2    \* the upstream offers comment trees while no more are stored
MaxFetches == 3     \* page-fetch counter saturates here
MaxNetTime == 1     \* longest time a request is in flight, in seconds
RecursionLimit == 4 \* nested calls the interpreter allows (scaled down)
MaxDepth == 5       \* deepest single-child reply chain the upstream returns
MaxKids == 2        \* most siblings in one children list of a drawn tree
MaxPostRows == 3    \* most posts in a collection handed to the analyzers
MaxCommentRows == 1 \* most comments in a collection handed to the analyzers
MaxScore == 1       \* largest score of a post or comment handed to the analyzers
MaxTopN == 2        \* largest top_n an analyzer operation is called with
MaxTitle == 2       \* most words in the title of a post handed to TopicAnalyzer

\* ----------------------------------------------------- program constants
RequestDelay == 2   \* self.request_delay
ClusterKeywords == 100  \* extract_keywords(top_n=100) in extract_topic_clusters

\* The configured lists are the prefixes of this one.
ForumNames == <<"all", "technology", "gadgets", "tech">>
Ids == 1..MaxId
Times == 0..MaxTime
Days == 0..MaxDay
Cursors == 0..MaxCursor          \* 0 is None / the empty string
Limits == 0..MaxLimit

Min(a, b) == IF a < b THEN a ELSE b

\* ------------------------------------------------------------- datetimes
\* A naive datetime: calendar day and time of day.  A configured date parses
\* to midnight of that day.
strptime(day) == [day |-> day, tick |-> 0]

\* The local wall-clock datetime of an epoch timestamp (ticks are counted from
\* local midnight of day 0).
fromtimestamp(ts) == [day |-> ts \div TicksPerDay, tick |-> ts % TicksPerDay]

\* datetime <= datetime
DtLeq(a, b) == a.day < b.day \/ (a.day = b.day /\ a.tick <= b.tick)

VARIABLES
    subreddits,       \* self.subreddits
    limit,            \* self.limit
    start_date,       \* self.start_date
    end_date,         \* self.end_date
    posts_data,       \* self.posts_data
    comments_data,    \* self.comments_data
    pc,               \* where search_posts stands
    k,                \* index of the for loop over self.subreddits
    collected_count,  \* _search_subreddit's local
    after,            \* _search_subreddit's local (0: None)
    params_after,     \* params['after'] (0: key absent)
    data,             \* the latest page: len(children) and data['data'].get('after')
    i,                \* position of the for loop in the page
    cur_id,           \* id of the post whose comments are being fetched
    elapsed,          \* seconds since the latest request started (-1: none yet)
    last_gap,         \* for the request in flight: elapsed when it started
    page_fetches,     \* search-page requests issued for this subreddit
    last_exit,        \* how the _search_subreddit call that just ended did so
    out_seen,         \* the step just taken examined a child dated outside the window
    log,              \* per finished _search_subreddit call: subreddit, posts appended
    reported,         \* num_comments of the submission the step just appended
    walk_raised,      \* the step just taken walked a comment tree and it raised
    walk_in,          \* a comment listing handed to the walker by _fetch_comments
    walk_out,         \* whether that walk is over, and whether it raised
    posts_df,         \* DataAnalyzer.posts_df
    comments_df,      \* DataAnalyzer.comments_df
    result,           \* the latest analyzer call: operation, top_n, return value
    default_sort,     \* the kind of the numeric library's default sort
    posts_with_sentiment,     \* SentimentAnalyzer.posts_with_sentiment
    comments_with_sentiment   \* SentimentAnalyzer.comments_with_sentiment

vars == <<subreddits, limit, start_date, end_date, posts_data, comments_data, pc, k,
          collected_count, after, params_after, data, i, cur_id,
          elapsed, last_gap, page_fetches, last_exit, out_seen, log, reported,
          walk_raised,
          walk_in, walk_out, posts_df, comments_df, result, default_sort,
          posts_with_sentiment, comments_with_sentiment>>

config == <<subreddits, limit, start_date, end_date>>
timer == <<elapsed, last_gap>>
\* What the crawl itself never touches: the state of the collaborators run
\* on their own.
walker == <<walk_in, walk_out>>
analyzer == <<posts_df, comments_df, result, default_sort>>
sentiment == <<posts_with_sentiment, comments_with_sentiment>>
analysis == <<walker, analyzer, sentiment>>
\* The position and the observations of a search_posts run.
run == <<pc, k, collected_count, after, params_after, data, i, cur_id,
         page_fetches, last_exit, out_seen, log, reported, walk_raised>>

NoPage == [len |-> 0 - 1, after |-> 0]
NoExit == [how |-> "none", cause |-> "none", fetched |-> FALSE]
NoCount == 0 - 1
NoWalk == [raised |-> FALSE, done |-> FALSE]
NoFrame == [columns |-> {}, rows |-> <<>>]
NoTopN == 0 - 1
NoResult == [op |-> "none", top_n |-> NoTopN, value |-> 0]

\* Epoch ticks of a datetime, and the window as an epoch interval.
EpochOf(dt) == dt.day * TicksPerDay + dt.tick
InEpochWindow(ts) == EpochOf(start_date) <= ts /\ ts <= EpochOf(end_date)

\* ------------------------------------------------------------ the window
\* Mutant: the upper bound of the window is not tested.
is_in_date_range_no_upper(timestamp) ==
    DtLeq(start_date, fromtimestamp(timestamp))

\* _is_in_date_range
is_in_date_range(timestamp) ==
    LET post_date == fromtimestamp(timestamp)
    IN  DtLeq(start_date, post_date) /\ DtLeq(post_date, end_date)

\* ------------------------------------------------------------- requests
\* What the network does with one GET.
NetOutcomes == {"transport_error", "http_error", "bad_json", "ok"}

\* Mutant: no try/except around the request; a failed request raises.
make_request_no_except(outcome, json_exc_caught) ==
    CASE outcome \in {"transport_error", "http_error"} ->
            [ret |-> "raise", slept |-> FALSE]
      [] outcome = "bad_json" ->
            [ret |-> IF json_exc_caught THEN "None" ELSE "raise", slept |-> TRUE]
      [] outcome = "ok" ->
            [ret |-> "json", slept |-> TRUE]

\* _make_request: requests.get and raise_for_status raise RequestException
\* (caught, None is returned, the sleep is skipped); after a 2xx status the
\* sleep runs and response.json() is returned.  A body that is not JSON makes
\* response.json() raise: a RequestException subclass in requests >= 2.27
\* (caught), a plain ValueError before (propagates); json_exc_caught says which.
make_request(outcome, json_exc_caught) ==
    CASE outcome \in {"transport_error", "http_error"} ->
            [ret |-> "None", slept |-> FALSE]
      [] outcome = "bad_json" ->
            [ret |-> IF json_exc_caught THEN "None" ELSE "raise", slept |-> TRUE]
      [] outcome = "ok" ->
            [ret |-> "json", slept |-> TRUE]

\* Everything _make_request can do with one GET.
Results == {make_request(outcome, caught) : outcome \in NetOutcomes, caught \in BOOLEAN}

\* The clock when a request starts: the gap to the previous start is recorded.
StartRequest ==
    /\ last_gap' = elapsed
    /\ elapsed' = 0

\* The clock when _make_request returns: the time in flight, plus the sleep.
EndRequest(net, r) ==
    /\ elapsed' = Min(RequestDelay, net + (IF r.slept THEN RequestDelay ELSE 0))
    /\ last_gap' = 0 - 1

\* ------------------------------------------------------- upstream payloads
\* A submission of a search page: the keys the code indexes directly, and the
\* one of them that the payload lacks, if any.
SubmissionKeys == {"none", "created_utc", "id", "num_comments"}
Submissions == [id : Ids, created_utc : Times, num_comments : {0, 1},
                missing : SubmissionKeys]

\* A node of a comment tree; replies is the list under replies.data.children.
CommentKeys == {"none", "created_utc"}
Replies == [kind : {"t1"}, body : {"text"}, id : {2},
            created_utc : Times, missing : CommentKeys, replies : {<<>>}]
TopNodes == [kind : {"t1", "more"}, body : {"", "text"}, id : {1},
             created_utc : Times, missing : CommentKeys,
             replies : {<<>>} \cup {<<c>> : c \in Replies}]
\* The comment listings the upstream returns during a crawl.
CrawlListings == {<<>>} \cup {<<n>> : n \in TopNodes}

\* --------------------------------------------------------------- walker
\* _extract_comments_recursive: the comments appended, in order, and whether an
\* exception cut the walk short (what was appended before it stays appended).
\* frames counts the nested calls of the function: each non-empty replies list
\* is walked by a call of its own, and the interpreter raises RecursionError in
\* the call that exceeds its limit.
RECURSIVE extract_comments_recursive(_, _, _)

\* Mutant: the replies are walked before the comment itself is appended.
extract_comment_replies_first(comment_data, post_id, frames) ==
    IF comment_data.kind # "t1" THEN [out |-> <<>>, raised |-> FALSE]
    ELSE
        LET has_body == comment_data.missing # "body" /\ comment_data.body # ""
            key_error == has_body /\ comment_data.missing = "created_utc"
            own == IF has_body /\ ~key_error
                      /\ is_in_date_range(comment_data.created_utc)
                   THEN <<[id |-> comment_data.id, post_id |-> post_id,
                           created_utc |-> comment_data.created_utc]>>
                   ELSE <<>>
            sub == IF comment_data.replies # <<>>
                   THEN extract_comments_recursive(comment_data.replies, post_id,
                                                   frames + 1)
                   ELSE [out |-> <<>>, raised |-> FALSE]
        IN  IF key_error THEN [out |-> <<>>, raised |-> TRUE]
            ELSE [out |-> sub.out \o own, raised |-> sub.raised]

\* Mutant: the replies of a comment that is not appended are not walked.
extract_comment_own_only(comment_data, post_id, frames) ==
    IF comment_data.kind # "t1" THEN [out |-> <<>>, raised |-> FALSE]
    ELSE
        LET has_body == comment_data.missing # "body" /\ comment_data.body # ""
            key_error == has_body /\ comment_data.missing = "created_utc"
            own == IF has_body /\ ~key_error
                      /\ is_in_date_range(comment_data.created_utc)
                   THEN <<[id |-> comment_data.id, post_id |-> post_id,
                           created_utc |-> comment_data.created_utc]>>
                   ELSE <<>>
            sub == IF comment_data.replies # <<>> /\ own # <<>>
                   THEN extract_comments_recursive(comment_data.replies, post_id,
                                                   frames + 1)
                   ELSE [out |-> <<>>, raised |-> FALSE]
        IN  IF key_error THEN [out |-> <<>>, raised |-> TRUE]
            ELSE [out |-> own \o sub.out, raised |-> sub.raised]

\* The body of the for loop, for one element of the list: a node that is not a
\* comment is passed over; 'body' in comment and comment['body'] decides
\* whether a record is built, the window whether it is appended; the replies
\* are walked either way.
extract_comment(comment_data, post_id, frames) ==
    IF comment_data.kind # "t1" THEN [out |-> <<>>, raised |-> FALSE]
    ELSE
        LET has_body == comment_data.missing # "body" /\ comment_data.body # ""
            key_error == has_body /\ comment_data.missing = "created_utc"
            own == IF has_body /\ ~key_error
                      /\ is_in_date_range(comment_data.created_utc)
                   THEN <<[id |-> comment_data.id, post_id |-> post_id,
                           created_utc |-> comment_data.created_utc]>>
                   ELSE <<>>
            sub == IF comment_data.replies # <<>>
                   THEN extract_comments_recursive(comment_data.replies, post_id,
                                                   frames + 1)
                   ELSE [out |-> <<>>, raised |-> FALSE]
        IN  IF key_error THEN [out |-> <<>>, raised |-> TRUE]
            ELSE [out |-> own \o sub.out, raised |-> sub.raised]

extract_comments_recursive(comments_list, post_id, frames) ==
    IF frames > RecursionLimit THEN [out |-> <<>>, raised |-> TRUE]
    ELSE IF comments_list = <<>> THEN [out |-> <<>>, raised |-> FALSE]
    ELSE
        LET h == extract_comment(Head(comments_list), post_id, frames)
            t == extract_comments_recursive(Tail(comments_list), post_id, frames)
        IN  IF h.raised THEN h
            ELSE [out |-> h.out \o t.out, raised |-> t.raised]

\* ----------------------------------------------------------------- Init
\* __init__: the configuration is read as it is; nothing is validated.
Init ==
    /\ subreddits \in {SubSeq(ForumNames, 1, n) : n \in 0..MaxForums}
    /\ limit \in Limits
    /\ start_date \in {strptime(d) : d \in Days}
    /\ end_date \in {strptime(d) : d \in Days}
    /\ posts_data = <<>>
    /\ comments_data = <<>>
    /\ pc = "next_forum"
    /\ k = 1
    /\ collected_count = 0
    /\ after = 0
    /\ params_after = 0
    /\ data = NoPage
    /\ i = 0
    /\ cur_id = 0
    /\ elapsed = 0 - 1
    /\ last_gap = 0 - 1
    /\ page_fetches = 0
    /\ last_exit = NoExit
    /\ out_seen = FALSE
    /\ log = <<>>
    /\ reported = NoCount
    /\ walk_raised = FALSE
    /\ walk_in = <<>>
    /\ walk_out = NoWalk
    /\ posts_df = NoFrame
    /\ comments_df = NoFrame
    /\ result = NoResult
    /\ default_sort = "stable"
    /\ posts_with_sentiment = <<>>
    /\ comments_with_sentiment = <<>>

\* -------------------------------------------------------------- actions
\* How a _search_subreddit call can end.
FetchFailureExits == {"fetch_failed", "fetch_raised"}
ExceptionExits == {"fetch_raised", "key_error"}

\* Mutant: an exception of one subreddit ends the for loop of search_posts.
EndSubreddit_Abort(how, cause, n) ==
    /\ log' = Append(log, [name |-> subreddits[k], posts |-> n])
    /\ last_exit' = [how |-> how, cause |-> cause, fetched |-> data # NoPage]
    /\ k' = IF how \in ExceptionExits THEN Len(subreddits) + 1 ELSE k + 1
    /\ pc' = "next_forum"
    /\ collected_count' = 0
    /\ after' = 0
    /\ params_after' = 0
    /\ data' = NoPage
    /\ i' = 0
    /\ cur_id' = 0
    /\ page_fetches' = 0

\* What one _search_subreddit call leaves behind when it ends: by return
\* (break or loop exit) or by an exception, which search_posts catches and
\* answers with continue.  Its locals go out of scope.
EndSubreddit(how, cause, n) ==
    /\ log' = Append(log, [name |-> subreddits[k], posts |-> n])
    /\ last_exit' = [how |-> how, cause |-> cause, fetched |-> data # NoPage]
    /\ k' = k + 1
    /\ pc' = "next_forum"
    /\ collected_count' = 0
    /\ after' = 0
    /\ params_after' = 0
    /\ data' = NoPage
    /\ i' = 0
    /\ cur_id' = 0
    /\ page_fetches' = 0

\* search_posts: the next iteration of the for loop calls _search_subreddit,
\* which sets up its locals; params has no 'after' key yet.
EnterSubreddit ==
    /\ pc = "next_forum"
    /\ k <= Len(subreddits)
    /\ pc' = "while"
    /\ collected_count' = 0
    /\ after' = 0
    /\ params_after' = 0
    /\ last_exit' = NoExit
    /\ out_seen' = FALSE
    /\ walk_raised' = FALSE
    /\ reported' = NoCount
    /\ UNCHANGED <<analysis, config, posts_data, comments_data, k, data, i, cur_id, timer,
                   page_fetches, log>>

\* search_posts: the for loop is over, the collections are returned.
ReturnData ==
    /\ pc = "next_forum"
    /\ k > Len(subreddits)
    /\ pc' = "done"
    /\ out_seen' = FALSE
    /\ walk_raised' = FALSE
    /\ reported' = NoCount
    /\ UNCHANGED <<analysis, config, posts_data, comments_data, k, collected_count, after,
                   params_after, data, i, cur_id, timer, page_fetches, last_exit,
                   log>>

\* while collected_count < self.limit
LoopCondition == collected_count < limit

\* Mutant: the for loop has no break at the limit.
AtLimit_Never == FALSE

\* if collected_count >= self.limit: break (in the for loop)
AtLimit == collected_count >= limit

\* while collected_count < self.limit: false, the loop and the call end.
WhileExit ==
    /\ pc = "while"
    /\ ~LoopCondition
    /\ EndSubreddit("limit", "none", collected_count)
    /\ out_seen' = FALSE
    /\ walk_raised' = FALSE
    /\ reported' = NoCount
    /\ UNCHANGED <<analysis, config, posts_data, comments_data, timer>>

\* Mutant: the cursor is never put into params.
RequestPage_NoCursor ==
    /\ pc = "while"
    /\ LoopCondition
    /\ out_seen' = FALSE
    /\ walk_raised' = FALSE
    /\ reported' = NoCount
    /\ StartRequest
    /\ page_fetches' = Min(MaxFetches, page_fetches + 1)
    /\ pc' = "page_wait"
    /\ UNCHANGED <<analysis, config, posts_data, comments_data, k, collected_count, after,
                   params_after, data, i, cur_id, last_exit, log>>

\* while collected_count < self.limit: true; the cursor goes into params and
\* the search page is requested.
RequestPage ==
    /\ pc = "while"
    /\ LoopCondition
    /\ out_seen' = FALSE
    /\ walk_raised' = FALSE
    /\ reported' = NoCount
    /\ params_after' = IF after # 0 THEN after ELSE params_after
    /\ StartRequest
    /\ page_fetches' = Min(MaxFetches, page_fetches + 1)
    /\ pc' = "page_wait"
    /\ UNCHANGED <<analysis, config, posts_data, comments_data, k, collected_count, after,
                   data, i, cur_id, last_exit, log>>

\* _make_request returned None (request failed): message, break.
PageFetchFails ==
    /\ pc = "page_wait"
    /\ \E outcome \in NetOutcomes, caught \in BOOLEAN, net \in 0..MaxNetTime :
         LET r == make_request(outcome, caught)
         IN  /\ r.ret = "None"
             /\ EndRequest(net, r)
             /\ EndSubreddit("fetch_failed", outcome, collected_count)
    /\ out_seen' = FALSE
    /\ walk_raised' = FALSE
    /\ reported' = NoCount
    /\ UNCHANGED <<analysis, config, posts_data, comments_data>>

\* _make_request raised (response.json() outside RequestException): the
\* exception leaves _search_subreddit.
PageFetchRaises ==
    /\ pc = "page_wait"
    /\ \E outcome \in NetOutcomes, caught \in BOOLEAN, net \in 0..MaxNetTime :
         LET r == make_request(outcome, caught)
         IN  /\ r.ret = "raise"
             /\ EndRequest(net, r)
             /\ EndSubreddit("fetch_raised", outcome, collected_count)
    /\ out_seen' = FALSE
    /\ walk_raised' = FALSE
    /\ reported' = NoCount
    /\ UNCHANGED <<analysis, config, posts_data, comments_data>>

\* The page arrived: JSON without a 'data' key breaks, an empty children list
\* breaks, otherwise the for loop starts on the n children.
PageReceived ==
    /\ pc = "page_wait"
    /\ \E r \in Results, net \in 0..MaxNetTime :
         /\ r.ret = "json"
         /\ EndRequest(net, r)
    /\ out_seen' = FALSE
    /\ walk_raised' = FALSE
    /\ reported' = NoCount
    /\ \/ EndSubreddit("no_data", "none", collected_count)
       \/ \E n \in 0..PageSize, cursor \in Cursors :
            IF n = 0
            THEN EndSubreddit("empty", "none", collected_count)
            ELSE /\ data' = [len |-> n, after |-> cursor]
                 /\ i' = 1
                 /\ pc' = "for"
                 /\ UNCHANGED <<k, collected_count, after, params_after,
                                cur_id, page_fetches, last_exit, log>>
    /\ UNCHANGED <<analysis, config, posts_data, comments_data>>

\* The for loop over the page ends (exhausted, or break at the limit); the
\* cursor of the page is read: none, break; else back to the while condition.
PageDone ==
    /\ pc = "for"
    /\ (i > data.len \/ AtLimit)
    /\ out_seen' = FALSE
    /\ walk_raised' = FALSE
    /\ reported' = NoCount
    /\ IF data.after = 0
       THEN EndSubreddit("last_page", "none", collected_count)
       ELSE /\ after' = data.after
            /\ pc' = "while"
            /\ i' = 0
            /\ UNCHANGED <<k, collected_count, params_after, data, cur_id,
                           page_fetches, last_exit, log>>
    /\ UNCHANGED <<analysis, config, posts_data, comments_data, timer>>

\* Mutant: a child outside the window ends the pagination (early stop).
SkipSubmission_Break ==
    /\ pc = "for"
    /\ i <= data.len
    /\ ~AtLimit
    /\ \E post \in Submissions :
         /\ post.missing # "created_utc"
         /\ ~is_in_date_range(post.created_utc)
         /\ out_seen' = ~InEpochWindow(post.created_utc)
         /\ walk_raised' = FALSE
         /\ reported' = NoCount
    /\ EndSubreddit("out_of_window", "none", collected_count)
    /\ UNCHANGED <<analysis, config, posts_data, comments_data, timer>>

\* Mutant: the comments of a child outside the window are requested.
SkipSubmission_FetchComments ==
    /\ pc = "for"
    /\ i <= data.len
    /\ ~AtLimit
    /\ \E post \in Submissions :
         /\ post.missing # "created_utc"
         /\ ~is_in_date_range(post.created_utc)
         /\ out_seen' = ~InEpochWindow(post.created_utc)
         /\ walk_raised' = FALSE
         /\ reported' = NoCount
         /\ cur_id' = post.id
    /\ StartRequest
    /\ pc' = "comments_wait"
    /\ UNCHANGED <<analysis, config, posts_data, comments_data, k,
                   collected_count, after, params_after, data, i,
                   page_fetches, last_exit, log>>

\* The next child is outside the window: continue.
SkipSubmission ==
    /\ pc = "for"
    /\ i <= data.len
    /\ ~AtLimit
    /\ \E post \in Submissions :
         /\ post.missing # "created_utc"
         /\ ~is_in_date_range(post.created_utc)
         /\ out_seen' = ~InEpochWindow(post.created_utc)
         /\ walk_raised' = FALSE
         /\ reported' = NoCount
    /\ i' = i + 1
    /\ UNCHANGED <<analysis, config, posts_data, comments_data, pc, k,
                   collected_count, after, params_after, data, cur_id, timer,
                   page_fetches, last_exit, log>>

\* The next child lacks 'created_utc' (line 136) or, in the window, 'id'
\* (line 141): KeyError before anything is appended.
SubmissionKeyError ==
    /\ pc = "for"
    /\ i <= data.len
    /\ ~AtLimit
    /\ \E post \in Submissions :
         \/ post.missing = "created_utc"
         \/ post.missing = "id" /\ is_in_date_range(post.created_utc)
    /\ out_seen' = FALSE
    /\ walk_raised' = FALSE
    /\ reported' = NoCount
    /\ EndSubreddit("key_error", "none", collected_count)
    /\ UNCHANGED <<analysis, config, posts_data, comments_data, timer>>

\* The record appended for a submission (the fields the claims read).
post_info(post) == [id |-> post.id, created_utc |-> post.created_utc]

\* Mutant: the comment tree is requested whatever the reported count.
AppendPost_FetchAlways ==
    /\ pc = "for"
    /\ i <= data.len
    /\ ~AtLimit
    /\ Len(posts_data) < MaxPosts
    /\ \E post \in Submissions :
         /\ post.missing \notin {"created_utc", "id"}
         /\ is_in_date_range(post.created_utc)
         /\ out_seen' = ~InEpochWindow(post.created_utc)
         /\ walk_raised' = FALSE
         /\ reported' = IF post.missing = "num_comments" THEN NoCount
                        ELSE post.num_comments
         /\ posts_data' = Append(posts_data, post_info(post))
         /\ IF post.missing = "num_comments"
            THEN /\ EndSubreddit("key_error", "none", collected_count + 1)
                 /\ UNCHANGED timer
            ELSE IF post.num_comments >= 0
            THEN /\ collected_count' = collected_count + 1
                 /\ cur_id' = post.id
                 /\ StartRequest
                 /\ pc' = "comments_wait"
                 /\ UNCHANGED <<k, after, params_after, data, i, page_fetches,
                                last_exit, log>>
            ELSE /\ collected_count' = collected_count + 1
                 /\ i' = i + 1
                 /\ UNCHANGED <<pc, k, after, params_after, data, cur_id, timer,
                                page_fetches, last_exit, log>>
    /\ UNCHANGED <<analysis, config, comments_data>>

\* The next child is in the window: it is appended and counted; then
\* post['num_comments'] is read: KeyError if absent, a comment request if
\* positive, the next child otherwise.
AppendPost ==
    /\ pc = "for"
    /\ i <= data.len
    /\ ~AtLimit
    /\ Len(posts_data) < MaxPosts
    /\ \E post \in Submissions :
         /\ post.missing \notin {"created_utc", "id"}
         /\ is_in_date_range(post.created_utc)
         /\ out_seen' = ~InEpochWindow(post.created_utc)
         /\ walk_raised' = FALSE
         /\ reported' = IF post.missing = "num_comments" THEN NoCount
                        ELSE post.num_comments
         /\ posts_data' = Append(posts_data, post_info(post))
         /\ IF post.missing = "num_comments"
            THEN /\ EndSubreddit("key_error", "none", collected_count + 1)
                 /\ UNCHANGED timer
            ELSE IF post.num_comments > 0
            THEN /\ collected_count' = collected_count + 1
                 /\ cur_id' = post.id
                 /\ StartRequest
                 /\ pc' = "comments_wait"
                 /\ UNCHANGED <<k, after, params_after, data, i, page_fetches,
                                last_exit, log>>
            ELSE /\ collected_count' = collected_count + 1
                 /\ i' = i + 1
                 /\ UNCHANGED <<pc, k, after, params_after, data, cur_id, timer,
                                page_fetches, last_exit, log>>
    /\ UNCHANGED <<analysis, config, comments_data>>

\* Mutant: _fetch_comments has no try/except, a failure leaves the search.
CommentsFetchFails_Propagates ==
    /\ pc = "comments_wait"
    /\ \E r \in Results, net \in 0..MaxNetTime :
         /\ r.ret # "json"
         /\ EndRequest(net, r)
    /\ out_seen' = FALSE
    /\ walk_raised' = FALSE
    /\ reported' = NoCount
    /\ EndSubreddit("fetch_raised", "none", collected_count)
    /\ UNCHANGED <<analysis, config, posts_data, comments_data>>

\* _fetch_comments: the request failed (None: return) or response.json()
\* raised (caught by the except of _fetch_comments); nothing is appended.
CommentsFetchFails ==
    /\ pc = "comments_wait"
    /\ \E r \in Results, net \in 0..MaxNetTime :
         /\ r.ret # "json"
         /\ EndRequest(net, r)
    /\ out_seen' = FALSE
    /\ walk_raised' = FALSE
    /\ reported' = NoCount
    /\ i' = i + 1
    /\ cur_id' = 0
    /\ pc' = "for"
    /\ UNCHANGED <<analysis, config, posts_data, comments_data, k, collected_count, after,
                   params_after, data, page_fetches, last_exit, log>>

\* _fetch_comments: JSON arrived.  Fewer than two elements: return.  Else the
\* listing is walked; what the walk appended stays, also when it raised.
\* Mutant: the comments of a tree are put in front of those already stored.
CommentsReceived_Prepend ==
    /\ pc = "comments_wait"
    /\ \E r \in Results, net \in 0..MaxNetTime :
         /\ r.ret = "json"
         /\ EndRequest(net, r)
    /\ \/ comments_data' = comments_data /\ walk_raised' = FALSE
       \/ \E w \in {extract_comments_recursive(listing, cur_id, 1) :
                       listing \in CrawlListings} :
            /\ Len(comments_data) + Len(w.out) <= MaxComments
            /\ comments_data' = w.out \o comments_data
            /\ walk_raised' = w.raised
    /\ out_seen' = FALSE
    /\ reported' = NoCount
    /\ i' = i + 1
    /\ cur_id' = 0
    /\ pc' = "for"
    /\ UNCHANGED <<analysis, config, posts_data, k, collected_count, after, params_after,
                   data, page_fetches, last_exit, log>>

CommentsReceived ==
    /\ pc = "comments_wait"
    /\ \E r \in Results, net \in 0..MaxNetTime :
         /\ r.ret = "json"
         /\ EndRequest(net, r)
    /\ \/ comments_data' = comments_data /\ walk_raised' = FALSE
       \/ \E w \in {extract_comments_recursive(listing, cur_id, 1) :
                       listing \in CrawlListings} :
            /\ Len(comments_data) + Len(w.out) <= MaxComments
            /\ comments_data' = comments_data \o w.out
            /\ walk_raised' = w.raised
    /\ out_seen' = FALSE
    /\ reported' = NoCount
    /\ i' = i + 1
    /\ cur_id' = 0
    /\ pc' = "for"
    /\ UNCHANGED <<analysis, config, posts_data, k, collected_count, after, params_after,
                   data, page_fetches, last_exit, log>>

Next ==
    \/ EnterSubreddit
    \/ ReturnData
    \/ WhileExit
    \/ RequestPage
    \/ PageFetchFails
    \/ PageFetchRaises
    \/ PageReceived
    \/ PageDone
    \/ SkipSubmission
    \/ SubmissionKeyError
    \/ AppendPost
    \/ CommentsFetchFails
    \/ CommentsReceived

Spec == Init /\ [][Next]_vars

\* The program is sequential and always takes its next step; every request is
\* answered (a response, an error or the 10 s timeout).
FairSpec == Spec /\ WF_vars(Next)

\* ------------------------------------------------- the walker on its own
\* _fetch_comments hands one comment listing to _extract_comments_recursive.
\* The nodes of a drawn tree are identified by their position: the id of a
\* node is the path of child indices that leads to it.  A node drawn with
\* missing = "body" has no 'body' key (the value of the field is not there).
NodeShapes ==
    {[kind |-> "t1", body |-> "text", created_utc |-> t, missing |-> "none"] :
        t \in Times}
      \cup {[kind |-> "t1", body |-> "", created_utc |-> 0, missing |-> "none"],
            [kind |-> "t1", body |-> "text", created_utc |-> 0, missing |-> "body"],
            [kind |-> "more", body |-> "", created_utc |-> 0, missing |-> "none"]}

Node(path, shape, replies) ==
    [kind |-> shape.kind, body |-> shape.body, id |-> path,
     created_utc |-> shape.created_utc, missing |-> shape.missing,
     replies |-> replies]

\* The trees of at most `levels` levels rooted at `path`, and the children lists
\* of n such trees under `path`.
RECURSIVE TreesAt(_, _), ListsAt(_, _, _)
TreesAt(path, levels) ==
    IF levels = 1 THEN {Node(path, s, <<>>) : s \in NodeShapes}
    ELSE {Node(path, s, r) :
            s \in NodeShapes,
            r \in UNION {ListsAt(path, n, levels - 1) : n \in 0..MaxKids}}

ListsAt(path, n, levels) ==
    IF n = 0 THEN {<<>>}
    ELSE {Append(l, t) : l \in ListsAt(path, n - 1, levels),
                         t \in TreesAt(path \o <<n>>, levels)}

\* A reply chain of the given depth: one child per node, every node a comment
\* with a body, created at tick 0.
RECURSIVE ChainAt(_, _)
ChainAt(path, depth) ==
    Node(path, [kind |-> "t1", body |-> "text", created_utc |-> 0,
                missing |-> "none"],
         IF depth = 1 THEN <<>> ELSE <<ChainAt(path \o <<1>>, depth - 1)>>)

\* data[1]['data']['children'] of a comments response.
WalkListings(levels) ==
    UNION {ListsAt(<<>>, n, levels) : n \in 1..MaxKids}
      \cup {<<ChainAt(<<1>>, d)>> : d \in 1..MaxDepth}

WalkInit ==
    /\ walk_in \in WalkListings(2)
    /\ subreddits = <<>>
    /\ limit = 0
    /\ start_date \in {strptime(d) : d \in Days}
    /\ end_date \in {strptime(d) : d \in Days}
    /\ posts_data = <<>>
    /\ comments_data = <<>>
    /\ pc = "comments_wait"
    /\ k = 1
    /\ collected_count = 0
    /\ after = 0
    /\ params_after = 0
    /\ data = NoPage
    /\ i = 0
    /\ cur_id = 1
    /\ elapsed = 0 - 1
    /\ last_gap = 0 - 1
    /\ page_fetches = 0
    /\ last_exit = NoExit
    /\ out_seen = FALSE
    /\ log = <<>>
    /\ reported = NoCount
    /\ walk_raised = FALSE
    /\ walk_out = NoWalk
    /\ posts_df = NoFrame
    /\ comments_df = NoFrame
    /\ result = NoResult
    /\ default_sort = "stable"
    /\ posts_with_sentiment = <<>>
    /\ comments_with_sentiment = <<>>

\* _fetch_comments, from the listing on: the walk appends to comments_data; an
\* exception it raises is caught, what it appended before stays.
FetchCommentsWalk ==
    /\ ~walk_out.done
    /\ LET w == extract_comments_recursive(walk_in, cur_id, 1)
       IN  /\ comments_data' = comments_data \o w.out
           /\ walk_out' = [raised |-> w.raised, done |-> TRUE]
    /\ UNCHANGED <<config, posts_data, run, timer, walk_in, analyzer, sentiment>>

WalkNext == FetchCommentsWalk

WalkSpec == WalkInit /\ [][WalkNext]_vars

\* ------------------------------------------------------- the aggregator
\* DataAnalyzer (src/data_analyzer.py) over the collections handed to it.
\* A data frame is its set of column labels and its rows, in order; a Counter
\* and a dict are the sequence of their entries in insertion order.
PostAuthors == {"alice", "[deleted]"}
CommentAuthors == {"alice", "bob", "AutoModerator"}
AnalyzerForums == {ForumNames[2], ForumNames[3]}
Scores == 0..MaxScore
TopNs == 0..MaxTopN

\* strftime('%Y-%m-%d %H:%M:%S'): the text has a date part and a time part;
\* pd.to_datetime reads it back and .dt.date keeps the date.
strftime(dt) == <<dt.day, dt.tick>>
to_datetime(text) == [day |-> text[1], tick |-> text[2]]
date(dt) == dt.day

\* The n-th record of a collection; it was created at tick n, its title and
\* permalink are its own, and the n-th comment has score n.
PostRow(n, author, subreddit, score) ==
    [id |-> n, title |-> n, author |-> author, subreddit |-> subreddit,
     created_utc |-> n, created_date |-> strftime(fromtimestamp(n)),
     score |-> score, num_comments |-> n % 2, permalink |-> n]

CommentRow(n, author, subreddit) ==
    [id |-> n, post_id |-> 1, author |-> author, subreddit |-> subreddit,
     created_utc |-> n, created_date |-> strftime(fromtimestamp(n)),
     score |-> n]

RECURSIVE PostLists(_)
PostLists(n) ==
    IF n = 0 THEN {<<>>}
    ELSE {Append(l, PostRow(n, a, f, sc)) :
            l \in PostLists(n - 1), a \in PostAuthors, f \in AnalyzerForums,
            sc \in Scores}

RECURSIVE CommentLists(_)
CommentLists(n) ==
    IF n = 0 THEN {<<>>}
    ELSE {Append(l, CommentRow(n, a, f)) :
            l \in CommentLists(n - 1), a \in CommentAuthors,
            f \in AnalyzerForums}

\* pd.DataFrame(list of dicts), DataFrame.empty, and __init__'s replacement of
\* an empty frame.
DataFrame(records) ==
    [columns |-> UNION {DOMAIN records[n] : n \in 1..Len(records)},
     rows |-> records]
empty(df) == df.rows = <<>> \/ df.columns = {}
init_frame(records) ==
    LET df == DataFrame(records)
    IN  IF empty(df) THEN [columns |-> {"id", "author", "subreddit"}, rows |-> <<>>]
        ELSE df

\* df[c].tolist()
RECURSIVE tolist(_, _)
tolist(rows, c) ==
    IF rows = <<>> THEN <<>> ELSE <<Head(rows)[c]>> \o tolist(Tail(rows), c)

\* set(df[c].unique()) if not df.empty else set()
unique(df, c) ==
    IF empty(df) THEN {} ELSE {df.rows[n][c] : n \in 1..Len(df.rows)}

\* collections.Counter(list): one entry per key, in order of first occurrence.
RECURSIVE Counter(_)
Counter(list) ==
    IF list = <<>> THEN <<>>
    ELSE LET c == Counter(SubSeq(list, 1, Len(list) - 1))
             x == list[Len(list)]
             at == {j \in 1..Len(c) : c[j].key = x}
         IN  IF at = {} THEN Append(c, [key |-> x, count |-> 1])
             ELSE LET j == CHOOSE j \in at : TRUE
                  IN  [c EXCEPT ![j].count = @ + 1]

\* sum(counts.values()) of a Counter or of a part of one.
RECURSIVE SumCounts(_)
SumCounts(entries) ==
    IF entries = <<>> THEN 0 ELSE Head(entries).count + SumCounts(Tail(entries))

\* A sort by a field, largest first.  A stable sort keeps equal keys in the
\* order of the list; of the orders a sort that is not stable may give them,
\* the reverse one stands for all.
SortKinds == {"stable", "unstable"}
RECURSIVE SortDescBy(_, _, _)
SortDescBy(list, key, kind) ==
    IF list = <<>> THEN <<>>
    ELSE LET sorted == SortDescBy(SubSeq(list, 1, Len(list) - 1), key, kind)
             x == list[Len(list)]
             before == {j \in 1..Len(sorted) :
                          \/ sorted[j][key] > x[key]
                          \/ kind = "stable" /\ sorted[j][key] = x[key]}
             p == Cardinality(before)
         IN  SubSeq(sorted, 1, p) \o <<x>> \o SubSeq(sorted, p + 1, Len(sorted))

\* Counter.most_common(n): by count, largest first, equal counts in order of
\* first occurrence; nothing for n <= 0.
most_common(counter, n) ==
    IF n <= 0 THEN <<>>
    ELSE LET sorted == SortDescBy(counter, "count", "stable")
         IN  SubSeq(sorted, 1, Min(n, Len(sorted)))

\* DataFrame.nlargest(n, column), keep='first'.  With n below the number of
\* rows the n largest are selected and ordered by a merge sort; otherwise the
\* library sorts the whole column with its default kind (quicksort), which does
\* not promise to keep equal keys in order.
nlargest(rows, n, column) ==
    IF n <= 0 THEN <<>>
    ELSE IF n >= Len(rows) THEN SortDescBy(rows, column, default_sort)
    ELSE SubSeq(SortDescBy(rows, column, "stable"), 1, n)

\* df[[columns]].to_dict('records')
RECURSIVE to_records(_, _)
to_records(rows, columns) ==
    IF rows = <<>> THEN <<>>
    ELSE <<[c \in columns |-> Head(rows)[c]]>> \o to_records(Tail(rows), columns)

\* The authors _count_unique_users and get_top_users leave out.
Sentinels == {"[deleted]", "AutoModerator"}

\* Mutant: only '[deleted]' is discarded.
count_unique_users_with_bot(pdf, cdf) ==
    Cardinality((unique(pdf, "author") \cup unique(cdf, "author")) \ {"[deleted]"})

\* _count_unique_users
count_unique_users(pdf, cdf) ==
    LET post_authors == unique(pdf, "author")
        comment_authors == unique(cdf, "author")
        all_authors == post_authors \cup comment_authors
    IN  Cardinality((all_authors \ {"[deleted]"}) \ {"AutoModerator"})

\* _count_unique_subreddits
count_unique_subreddits(pdf, cdf) ==
    Cardinality(unique(pdf, "subreddit") \cup unique(cdf, "subreddit"))

\* Mutant: the volume counts the posts only.
calculate_basic_stats_posts_only(pdf, cdf) ==
    [total_volume |-> Len(pdf.rows),
     post_count |-> Len(pdf.rows),
     comment_count |-> Len(cdf.rows),
     unique_users |-> count_unique_users(pdf, cdf),
     unique_subreddits |-> count_unique_subreddits(pdf, cdf)]

\* calculate_basic_stats
calculate_basic_stats(pdf, cdf) ==
    [total_volume |-> Len(pdf.rows) + Len(cdf.rows),
     post_count |-> Len(pdf.rows),
     comment_count |-> Len(cdf.rows),
     unique_users |-> count_unique_users(pdf, cdf),
     unique_subreddits |-> count_unique_subreddits(pdf, cdf)]

\* The list get_subreddit_distribution and get_top_users build from a column:
\* the posts' values, then the comments'.
all_of(pdf, cdf, c) ==
    (IF empty(pdf) THEN <<>> ELSE tolist(pdf.rows, c))
        \o (IF empty(cdf) THEN <<>> ELSE tolist(cdf.rows, c))

\* Mutant: the comments' subreddits are not counted.
get_subreddit_distribution_posts_only(pdf, cdf, top_n) ==
    most_common(Counter(IF empty(pdf) THEN <<>> ELSE tolist(pdf.rows, "subreddit")),
                top_n)

\* get_subreddit_distribution
get_subreddit_distribution(pdf, cdf, top_n) ==
    LET all_subreddits == all_of(pdf, cdf, "subreddit")
        subreddit_counts == Counter(all_subreddits)
    IN  most_common(subreddit_counts, top_n)

\* self.df['date'] = pd.to_datetime(self.df['created_date']).dt.date
RECURSIVE add_date(_)
add_date(rows) ==
    IF rows = <<>> THEN <<>>
    ELSE LET r == Head(rows)
         IN  <<[c \in DOMAIN r \cup {"date"} |->
                  IF c = "date" THEN date(to_datetime(r.created_date)) ELSE r[c]]>>
               \o add_date(Tail(rows))

\* What get_time_distribution leaves in a frame: the 'date' column, unless the
\* frame is empty.
with_date(df) ==
    IF empty(df) THEN df
    ELSE [columns |-> df.columns \cup {"date"}, rows |-> add_date(df.rows)]

\* df.groupby('date').size().to_dict()
size_by_date(df) ==
    [d \in {df.rows[n].date : n \in 1..Len(df.rows)} |->
        Cardinality({n \in 1..Len(df.rows) : df.rows[n].date = d})]

\* get_time_distribution (its return value)
get_time_distribution(pdf, cdf) ==
    [posts_by_date |-> IF empty(pdf) THEN <<>> ELSE size_by_date(with_date(pdf)),
     comments_by_date |-> IF empty(cdf) THEN <<>> ELSE size_by_date(with_date(cdf))]

\* Series.sum(), Series.mean() and Series.median(): the mean and the median are
\* fractions; of an empty series they are NaN.
RECURSIVE sum(_)
sum(list) == IF list = <<>> THEN 0 ELSE Head(list) + sum(Tail(list))

RECURSIVE sort_values(_)
sort_values(list) ==
    IF list = <<>> THEN <<>>
    ELSE LET sorted == sort_values(SubSeq(list, 1, Len(list) - 1))
             x == list[Len(list)]
             p == Cardinality({j \in 1..Len(sorted) : sorted[j] <= x})
         IN  SubSeq(sorted, 1, p) \o <<x>> \o SubSeq(sorted, p + 1, Len(sorted))

NaN == [num |-> 0, den |-> 0]
Zero == [num |-> 0, den |-> 1]
mean(list) ==
    IF list = <<>> THEN NaN ELSE [num |-> sum(list), den |-> Len(list)]
median(list) ==
    LET sorted == sort_values(list)
        n == Len(list)
    IN  IF n = 0 THEN NaN
        ELSE IF n % 2 = 1 THEN [num |-> sorted[(n + 1) \div 2], den |-> 1]
        ELSE [num |-> sorted[n \div 2] + sorted[n \div 2 + 1], den |-> 2]

\* Mutant: the statistics are computed whether or not the frame is empty.
get_engagement_stats_unguarded(pdf, cdf) ==
    [avg_post_score |-> mean(tolist(pdf.rows, "score")),
     avg_comment_score |-> mean(tolist(cdf.rows, "score")),
     total_post_score |-> sum(tolist(pdf.rows, "score")),
     total_comment_score |-> sum(tolist(cdf.rows, "score")),
     avg_comments_per_post |-> mean(tolist(pdf.rows, "num_comments")),
     median_post_score |-> median(tolist(pdf.rows, "score")),
     median_comment_score |-> median(tolist(cdf.rows, "score"))]

\* get_engagement_stats
get_engagement_stats(pdf, cdf) ==
    LET posts == ~empty(pdf)
        comments == ~empty(cdf)
    IN  [avg_post_score |->
             IF posts THEN mean(tolist(pdf.rows, "score")) ELSE Zero,
         avg_comment_score |->
             IF comments THEN mean(tolist(cdf.rows, "score")) ELSE Zero,
         total_post_score |->
             IF posts THEN sum(tolist(pdf.rows, "score")) ELSE 0,
         total_comment_score |->
             IF comments THEN sum(tolist(cdf.rows, "score")) ELSE 0,
         avg_comments_per_post |->
             IF posts THEN mean(tolist(pdf.rows, "num_comments")) ELSE Zero,
         median_post_score |->
             IF posts THEN median(tolist(pdf.rows, "score")) ELSE Zero,
         median_comment_score |->
             IF comments THEN median(tolist(cdf.rows, "score")) ELSE Zero]

\* The columns get_top_posts returns.
TopPostColumns ==
    {"title", "author", "subreddit", "score", "num_comments", "permalink",
     "created_date"}

\* Mutant: every column of the frame is returned.
get_top_posts_all_columns(pdf, top_n) ==
    IF empty(pdf) THEN <<>>
    ELSE to_records(nlargest(pdf.rows, top_n, "score"), pdf.columns)

\* get_top_posts
get_top_posts(pdf, top_n) ==
    IF empty(pdf) THEN <<>>
    ELSE to_records(nlargest(pdf.rows, top_n, "score"), TopPostColumns)

\* get_top_users
get_top_users(pdf, cdf, top_n) ==
    LET all_authors == SelectSeq(all_of(pdf, cdf, "author"),
                                 LAMBDA a : a \notin Sentinels)
        author_counts == Counter(all_authors)
    IN  most_common(author_counts, top_n)

\* DataAnalyzer(posts_data, comments_data), no operation called yet.
AnalyzerInit ==
    /\ subreddits = <<>>
    /\ limit = 0
    /\ start_date = strptime(0)
    /\ end_date = strptime(0)
    /\ posts_data \in UNION {PostLists(n) : n \in 0..MaxPostRows}
    /\ comments_data \in UNION {CommentLists(n) : n \in 0..MaxCommentRows}
    /\ pc = "done"
    /\ k = 1
    /\ collected_count = 0
    /\ after = 0
    /\ params_after = 0
    /\ data = NoPage
    /\ i = 0
    /\ cur_id = 0
    /\ elapsed = 0 - 1
    /\ last_gap = 0 - 1
    /\ page_fetches = 0
    /\ last_exit = NoExit
    /\ out_seen = FALSE
    /\ log = <<>>
    /\ reported = NoCount
    /\ walk_raised = FALSE
    /\ walk_in = <<>>
    /\ walk_out = NoWalk
    /\ posts_df = init_frame(posts_data)
    /\ comments_df = init_frame(comments_data)
    /\ result = NoResult
    /\ default_sort \in SortKinds
    /\ posts_with_sentiment = <<>>
    /\ comments_with_sentiment = <<>>

\* What no analyzer operation touches.
given == <<config, posts_data, comments_data, run, timer, walker, default_sort,
           sentiment>>

CalculateBasicStats ==
    /\ result' = [op |-> "calculate_basic_stats", top_n |-> NoTopN,
                  value |-> calculate_basic_stats(posts_df, comments_df)]
    /\ UNCHANGED <<given, posts_df, comments_df>>

GetSubredditDistribution ==
    /\ \E top_n \in TopNs :
         result' = [op |-> "get_subreddit_distribution", top_n |-> top_n,
                    value |-> get_subreddit_distribution(posts_df, comments_df,
                                                         top_n)]
    /\ UNCHANGED <<given, posts_df, comments_df>>

\* get_time_distribution also writes the 'date' column into both frames.
GetTimeDistribution ==
    /\ result' = [op |-> "get_time_distribution", top_n |-> NoTopN,
                  value |-> get_time_distribution(posts_df, comments_df)]
    /\ posts_df' = with_date(posts_df)
    /\ comments_df' = with_date(comments_df)
    /\ UNCHANGED given

GetEngagementStats ==
    /\ result' = [op |-> "get_engagement_stats", top_n |-> NoTopN,
                  value |-> get_engagement_stats(posts_df, comments_df)]
    /\ UNCHANGED <<given, posts_df, comments_df>>

GetTopPosts ==
    /\ \E top_n \in TopNs :
         result' = [op |-> "get_top_posts", top_n |-> top_n,
                    value |-> get_top_posts(posts_df, top_n)]
    /\ UNCHANGED <<given, posts_df, comments_df>>

GetTopUsers ==
    /\ \E top_n \in TopNs :
         result' = [op |-> "get_top_users", top_n |-> top_n,
                    value |-> get_top_users(posts_df, comments_df, top_n)]
    /\ UNCHANGED <<given, posts_df, comments_df>>

AnalyzerNext ==
    \/ CalculateBasicStats
    \/ GetSubredditDistribution
    \/ GetTimeDistribution
    \/ GetEngagementStats
    \/ GetTopPosts
    \/ GetTopUsers

AnalyzerSpec == AnalyzerInit /\ [][AnalyzerNext]_vars

\* ---------------------------------------------------- the topic extractor
\* TopicAnalyzer (src/topic_analyzer.py).  A text is the sequence of its
\* whitespace-separated pieces; cleaning works piece by piece.
RawWords ==
    {"fast", "Slow", "price,", "vs", "like", "https://fast.io", "camera",
     "low-price"}

stop_words ==
    {"the", "a", "an", "and", "or", "but", "in", "on", "at", "to", "for",
     "of", "with", "by", "from", "as", "is", "was", "are", "were", "been",
     "be", "have", "has", "had", "do", "does", "did", "will", "would",
     "could", "should", "may", "might", "can", "this", "that", "these",
     "those", "i", "you", "he", "she", "it", "we", "they", "what", "which",
     "who", "when", "where", "why", "how", "my", "your", "his", "her", "its",
     "our", "their", "me", "him", "them", "us", "just", "not", "ve", "re",
     "ll", "s", "t", "m", "d", "like", "get", "got", "one", "also", "really",
     "even", "still", "much", "more", "very", "so", "too", "out", "up", "down",
     "https", "http", "com", "www"}

\* text.lower()
lower(piece) == IF piece = "Slow" THEN "slow" ELSE piece

\* re.sub(r'http\S+|www\S+', '', text): a piece that starts a URL goes.
remove_urls(piece) == IF piece = "https://fast.io" THEN "" ELSE piece

\* re.sub(r'[^a-zA-Z0-9\s]', ' ', text) and split(): the words of a piece.
split_words(piece) ==
    CASE piece = "" -> <<>>
      [] piece = "price," -> <<"price">>
      [] piece = "low-price" -> <<"low", "price">>
      [] OTHER -> <<piece>>

\* _clean_text followed by split(), over the pieces of a text.
RECURSIVE clean_text(_)
clean_text(text) ==
    IF text = <<>> THEN <<>>
    ELSE split_words(remove_urls(lower(Head(text)))) \o clean_text(Tail(text))

\* _extract_text_from_data: titles and non-empty selftexts of the posts, then
\* the non-empty bodies of the comments.
RECURSIVE post_texts(_)
post_texts(posts) ==
    IF posts = <<>> THEN <<>>
    ELSE Head(posts).title \o Head(posts).selftext \o post_texts(Tail(posts))

RECURSIVE comment_texts(_)
comment_texts(comments) ==
    IF comments = <<>> THEN <<>>
    ELSE Head(comments).body \o comment_texts(Tail(comments))

extract_text_from_data(posts, comments) ==
    post_texts(posts) \o comment_texts(comments)

\* Mutant: every word is counted, stop words and short words included.
extract_keywords_unfiltered(posts, comments, top_n) ==
    LET all_text == extract_text_from_data(posts, comments)
        words == clean_text(all_text)
        word_counts == Counter(words)
    IN  most_common(word_counts, top_n)

\* extract_keywords
extract_keywords(posts, comments, top_n) ==
    LET all_text == extract_text_from_data(posts, comments)
        words == clean_text(all_text)
        filtered_words ==
            SelectSeq(words, LAMBDA word : word \notin stop_words /\ Len(word) > 2)
        word_counts == Counter(filtered_words)
    IN  most_common(word_counts, top_n)

\* topic_patterns, in the order of the dict.
topic_patterns ==
    <<[topic |-> "performance",
       patterns |-> {"performance", "speed", "fast", "slow", "lag", "fps",
                     "battery", "processor", "chip"}],
      [topic |-> "design",
       patterns |-> {"design", "look", "color", "screen", "display", "size",
                     "weight", "build", "camera"}],
      [topic |-> "price",
       patterns |-> {"price", "cost", "expensive", "cheap", "worth", "value",
                     "money", "deal", "sale"}],
      [topic |-> "features",
       patterns |-> {"feature", "function", "support", "software", "update",
                     "version", "system", "app"}],
      [topic |-> "quality",
       patterns |-> {"quality", "issue", "problem", "defect", "break",
                     "damage", "fix", "repair", "warranty"}],
      [topic |-> "comparison",
       patterns |-> {"better", "worse", "compare", "difference", "versus",
                     "vs", "alternative", "similar"}],
      [topic |-> "user_experience",
       patterns |-> {"use", "experience", "love", "hate", "like", "dislike",
                     "recommend", "buy", "purchased"}]>>

\* The loop over topic_patterns: one entry per topic with a related word.
RECURSIVE topic_stats(_, _)
topic_stats(topics, keywords) ==
    IF topics = <<>> THEN <<>>
    ELSE LET related_words ==
                 SelectSeq(keywords, LAMBDA e : e.key \in Head(topics).patterns)
         IN  (IF related_words # <<>>
              THEN <<[topic |-> Head(topics).topic,
                      keywords |-> related_words,
                      total_mentions |-> SumCounts(related_words)]>>
              ELSE <<>>) \o topic_stats(Tail(topics), keywords)

\* Mutant: the topics are returned in the order of topic_patterns.
extract_topic_clusters_unsorted(posts, comments, top_n) ==
    LET keywords == extract_keywords(posts, comments, ClusterKeywords)
        stats == topic_stats(topic_patterns, keywords)
    IN  SubSeq(stats, 1, Min(top_n, Len(stats)))

\* extract_topic_clusters (top_n >= 0)
extract_topic_clusters(posts, comments, top_n) ==
    LET keywords == extract_keywords(posts, comments, ClusterKeywords)
        sorted_topics ==
            SortDescBy(topic_stats(topic_patterns, keywords), "total_mentions",
                       "stable")
    IN  IF keywords = <<>> THEN <<>>
        ELSE SubSeq(sorted_topics, 1, Min(top_n, Len(sorted_topics)))

\* The collections handed to TopicAnalyzer.
Titles == UNION {[1..n -> RawWords] : n \in 0..MaxTitle}
TopicPosts ==
    {<<>>} \cup {<<[id |-> 1, title |-> t, selftext |-> b]>> :
                   t \in Titles, b \in {<<>>, <<"fast">>, <<"camera">>}}
TopicComments ==
    {<<>>} \cup {<<[id |-> 1, body |-> b]>> :
                   b \in {<<>>} \cup {<<w>> : w \in RawWords}}

\* A post whose title says fast five times, slow three times and price ten times.
Repeat(word, n) == [j \in 1..n |-> word]
ExamplePosts ==
    <<[id |-> 1,
       title |-> Repeat("fast", 5) \o Repeat("Slow", 3) \o Repeat("price,", 10),
       selftext |-> <<>>]>>

TopicInit ==
    /\ subreddits = <<>>
    /\ limit = 0
    /\ start_date = strptime(0)
    /\ end_date = strptime(0)
    /\ \/ posts_data \in TopicPosts /\ comments_data \in TopicComments
       \/ posts_data = ExamplePosts /\ comments_data = <<>>
    /\ pc = "done"
    /\ k = 1
    /\ collected_count = 0
    /\ after = 0
    /\ params_after = 0
    /\ data = NoPage
    /\ i = 0
    /\ cur_id = 0
    /\ elapsed = 0 - 1
    /\ last_gap = 0 - 1
    /\ page_fetches = 0
    /\ last_exit = NoExit
    /\ out_seen = FALSE
    /\ log = <<>>
    /\ reported = NoCount
    /\ walk_raised = FALSE
    /\ walk_in = <<>>
    /\ walk_out = NoWalk
    /\ posts_df = NoFrame
    /\ comments_df = NoFrame
    /\ result = NoResult
    /\ default_sort = "stable"
    /\ posts_with_sentiment = <<>>
    /\ comments_with_sentiment = <<>>

ExtractKeywords ==
    /\ \E top_n \in TopNs :
         result' = [op |-> "extract_keywords", top_n |-> top_n,
                    value |-> extract_keywords(posts_data, comments_data, top_n)]
    /\ UNCHANGED <<given, posts_df, comments_df>>

ExtractTopicClusters ==
    /\ \E top_n \in TopNs :
         result' = [op |-> "extract_topic_clusters", top_n |-> top_n,
                    value |-> extract_topic_clusters(posts_data, comments_data,
                                                     top_n)]
    /\ UNCHANGED <<given, posts_df, comments_df>>

TopicNext == ExtractKeywords \/ ExtractTopicClusters

TopicSpec == TopicInit /\ [][TopicNext]_vars

\* ------------------------------------------------------ the sentiment pass
\* SentimentAnalyzer.  The collections it is given are posts_data and
\* comments_data.  A text is the sequence of its words (a field that is the
\* empty string contributes none); the classifier library is a fixed function
\* from texts to scores, given here by a small lexicon in tenths.
MaxRuns == 2        \* most calls of one sentiment operation that add records
TitleWords == {"good", "bad"}
BodyWords == {"", "okay", "bad"}
CommentWords == {"", "good", "okay", "bad"}

\* blob.sentiment.polarity and .subjectivity, in tenths.
word_polarity(w) ==
    CASE w = "good" -> 7
      [] w = "bad" -> 0 - 7
      [] w = "okay" -> 1
      [] OTHER -> 0
word_subjectivity(w) == IF w \in {"good", "bad"} THEN 6 ELSE 0

words_of(fields) == SelectSeq(fields, LAMBDA w : w # "")
polarity(text) ==
    sum([j \in 1..Len(text) |-> word_polarity(text[j])]) \div Len(text)
subjectivity(text) ==
    sum([j \in 1..Len(text) |-> word_subjectivity(text[j])]) \div Len(text)

\* _analyze_text_sentiment: a blank text is neutral; else the label follows
\* the polarity, above 0.1 positive, below -0.1 negative.
analyze_text_sentiment(text) ==
    IF text = <<>>
    THEN [sentiment_polarity |-> 0, sentiment_subjectivity |-> 0,
          sentiment |-> "neutral"]
    ELSE [sentiment_polarity |-> polarity(text),
          sentiment_subjectivity |-> subjectivity(text),
          sentiment |-> IF polarity(text) > 1 THEN "positive"
                        ELSE IF polarity(text) < 0 - 1 THEN "negative"
                        ELSE "neutral"]

\* post.copy() followed by update(fields).
update(record, fields) ==
    [c \in DOMAIN record \cup DOMAIN fields |->
        IF c \in DOMAIN fields THEN fields[c] ELSE record[c]]

\* The records one call of analyze_posts / analyze_comments builds, in order.
posts_pass(posts) ==
    [j \in 1..Len(posts) |->
        update(posts[j],
               analyze_text_sentiment(
                   words_of(<<posts[j].title, posts[j].selftext>>)))]
comments_pass(comments) ==
    [j \in 1..Len(comments) |->
        update(comments[j],
               analyze_text_sentiment(words_of(<<comments[j].body>>)))]

\* The collections a SentimentAnalyzer is constructed with.
SentimentPosts(n) ==
    {[j \in 1..n |-> [id |-> j, title |-> tb[j][1], selftext |-> tb[j][2]]] :
        tb \in [1..n -> TitleWords \X BodyWords]}
SentimentComments(n) ==
    {[j \in 1..n |-> [id |-> j, body |-> b[j]]] : b \in [1..n -> CommentWords]}

SentimentInit ==
    /\ subreddits = <<>>
    /\ limit = 0
    /\ start_date = strptime(0)
    /\ end_date = strptime(0)
    /\ posts_data \in UNION {SentimentPosts(n) : n \in 0..MaxPostRows}
    /\ comments_data \in UNION {SentimentComments(n) : n \in 0..MaxCommentRows}
    /\ pc = "done"
    /\ k = 1
    /\ collected_count = 0
    /\ after = 0
    /\ params_after = 0
    /\ data = NoPage
    /\ i = 0
    /\ cur_id = 0
    /\ elapsed = 0 - 1
    /\ last_gap = 0 - 1
    /\ page_fetches = 0
    /\ last_exit = NoExit
    /\ out_seen = FALSE
    /\ log = <<>>
    /\ reported = NoCount
    /\ walk_raised = FALSE
    /\ walk_in = <<>>
    /\ walk_out = NoWalk
    /\ posts_df = NoFrame
    /\ comments_df = NoFrame
    /\ result = NoResult
    /\ default_sort = "stable"
    /\ posts_with_sentiment = <<>>
    /\ comments_with_sentiment = <<>>

\* What no sentiment operation touches.
inputs == <<config, posts_data, comments_data, run, timer, walker, analyzer>>

\* analyze_posts: one record per post is appended to self.posts_with_sentiment,
\* which is returned; the list is not emptied first.
AnalyzePosts ==
    /\ Len(posts_with_sentiment) < MaxRuns * Len(posts_data)
    /\ posts_with_sentiment' = posts_with_sentiment \o posts_pass(posts_data)
    /\ UNCHANGED <<inputs, comments_with_sentiment>>

\* analyze_comments: the same for self.comments_with_sentiment.
AnalyzeComments ==
    /\ Len(comments_with_sentiment) < MaxRuns * Len(comments_data)
    /\ comments_with_sentiment' =
           comments_with_sentiment \o comments_pass(comments_data)
    /\ UNCHANGED <<inputs, posts_with_sentiment>>

SentimentNext == AnalyzePosts \/ AnalyzeComments

SentimentSpec == SentimentInit /\ [][SentimentNext]_vars

\* ================================================================ claims
RECURSIVE SumPosts(_)
SumPosts(l) == IF l = <<>> THEN 0 ELSE Head(l).posts + SumPosts(Tail(l))

\* A _search_subreddit call has just ended (or was the last one of the run).
JustEnded == pc \in {"next_forum", "done"} /\ Len(log) > 0 /\ last_exit # NoExit

\* C1: every stored post and every stored comment has a created_utc inside the
\* configured window, start_date <= created_utc <= end_date, both inclusive.
C1_WindowInvariant ==
    /\ \A n \in 1..Len(posts_data) : InEpochWindow(posts_data[n].created_utc)
    /\ \A n \in 1..Len(comments_data) : InEpochWindow(comments_data[n].created_utc)

\* C1 witness: a finished run that stored a post and a comment under a window
\* that excludes some timestamp the upstream reports.
C1_Witness ==
    /\ pc = "done"
    /\ Len(posts_data) > 0
    /\ Len(comments_data) > 0
    /\ \E ts \in Times : ~InEpochWindow(ts)

\* Every fetch of the subreddit that just ended failed.
AllFetchesFailed == last_exit.how \in FetchFailureExits /\ ~last_exit.fetched

\* Every subreddit up to the current one was searched, in the configured order,
\* and the run returns only after the last one.
AllForumsSearched ==
    /\ k = Len(log) + 1
    /\ Len(log) <= Len(subreddits)
    /\ \A n \in 1..Len(log) : log[n].name = subreddits[n]
    /\ pc = "done" => Len(log) = Len(subreddits)

C3_LimitRespected ==
    /\ collected_count <= limit
    /\ \A n \in 1..Len(log) : log[n].posts <= limit
    /\ Len(posts_data) = SumPosts(log) + collected_count
    /\ pc = "page_wait" => collected_count < limit

\* C3 witness: limit lies between one and two pages; the second page brought the
\* count to limit, with a cursor for a third page; two fetches were issued.
C3_Witness ==
    /\ pc = "while"
    /\ limit > PageSize
    /\ collected_count = limit
    /\ page_fetches = 2
    /\ after # 0

\* C4: for every forum list and every behaviour of the upstream, search_posts
\* eventually reaches its terminal state and returns the collection.
C4_Terminates == <>(pc = "done")

\* C5: between the start of one HTTP request and the start of the next at least
\* request_delay elapses, also when the earlier request failed.
C5_MinDelay ==
    pc \in {"page_wait", "comments_wait"} =>
        (last_gap = 0 - 1 \/ last_gap >= RequestDelay)

\* start date after end date, or no forum configured
ConfigInvalid == ~DtLeq(start_date, end_date) \/ subreddits = <<>>

\* C6: a run with an invalid date window or an empty forum list is rejected
\* before any request: it performs no fetch and returns no collection.
C6_ConfigRejected ==
    ConfigInvalid => (elapsed = 0 - 1 /\ pc # "done")

\* C7: no two records of the post collection share an id.
C7_UniqueIds ==
    \A m, n \in 1..Len(posts_data) : m < n => posts_data[m].id # posts_data[n].id

FetchFailures == {"transport_error", "http_error"}

C9_SkipContinues ==
    /\ [][out_seen' =>
            /\ pc' = "for"
            /\ i' = i + 1
            /\ data' = data
            /\ k' = k
            /\ collected_count' = collected_count
            /\ posts_data' = posts_data
            /\ comments_data' = comments_data
            /\ log' = log
         ]_vars
    /\ [][(pc = "for" /\ i > data.len /\ data.after # 0) =>
            (pc' = "while" /\ after' = data.after /\ k' = k)
         ]_vars
    /\ []((pc = "while" /\ collected_count < limit) => ENABLED RequestPage)
    /\ []((pc = "for" /\ i <= data.len /\ collected_count < limit
           /\ Len(posts_data) < MaxPosts /\ \E ts \in Times : InEpochWindow(ts))
          => ENABLED AppendPost)

\* C9 witness: the first page held only children outside the window (nothing
\* was collected from it) and the request for the second page is in flight.
C9_Witness ==
    /\ pc = "page_wait"
    /\ page_fetches = 2
    /\ collected_count = 0
    /\ data.len = PageSize
    /\ \E ts \in Times : InEpochWindow(ts)

\* C10: a search page is requested only as the first of its subreddit, carrying
\* no cursor, or after a non-empty page that returned a non-empty cursor, and
\* then it carries exactly that cursor.
C10_CursorChain ==
    pc = "page_wait" =>
        \/ data = NoPage /\ params_after = 0 /\ page_fetches = 1
        \/ /\ data # NoPage
           /\ data.len > 0
           /\ data.after # 0
           /\ params_after = data.after
           /\ page_fetches > 1

\* C10 witness: the request for a second page is in flight with the cursor the
\* first page returned.
C10_Witness ==
    /\ pc = "page_wait"
    /\ data # NoPage
    /\ data.after # 0
    /\ params_after = data.after

\* ------------------------------------------------------------ the walker
\* The listing walked is the reply chain of depth d.
IsChain(d) == walk_in = <<ChainAt(<<1>>, d)>>

\* C11: a reply chain of any depth D, one child per node, every node an in-window
\* comment with a body, yields exactly D comments; the walk never raises and
\* never truncates its output because of the nesting depth.
C11_AnyDepth ==
    \A d \in 1..MaxDepth :
        (walk_out.done /\ IsChain(d) /\ is_in_date_range(0))
            => (~walk_out.raised /\ Len(comments_data) = d)

\* a precedes b in pre-order: a is a proper ancestor of b, or at the first
\* place where the paths differ a took the earlier sibling.
PathBefore(a, b) ==
    \E j \in 1..Len(b) :
        /\ \A m \in 1..(j - 1) : m <= Len(a) /\ a[m] = b[m]
        /\ j - 1 <= Len(a)
        /\ (j = Len(a) + 1 \/ a[j] < b[j])

\* The nodes of a listing the walk is to emit: comments with a body, in the
\* window, not below a node that is not a comment.
RECURSIVE VisibleIn(_)
VisibleOf(node) ==
    IF node.kind # "t1" THEN {}
    ELSE (IF node.missing # "body" /\ node.body # ""
             /\ InEpochWindow(node.created_utc)
          THEN {node.id} ELSE {}) \cup VisibleIn(node.replies)

VisibleIn(list) == UNION {VisibleOf(list[n]) : n \in 1..Len(list)}

\* C12: the comments appended for one tree are in pre-order (a comment before
\* its reply subtree, siblings with their subtrees in the order of the listing),
\* they are exactly the comments the tree holds, and a single-child chain within
\* the interpreter's nesting limit yields one comment per level.
C12_PreOrder ==
    walk_out.done =>
        /\ \A m \in 1..(Len(comments_data) - 1) :
               PathBefore(comments_data[m].id, comments_data[m + 1].id)
        /\ ~walk_out.raised =>
               {comments_data[m].id : m \in 1..Len(comments_data)}
                   = VisibleIn(walk_in)
        /\ \A d \in 1..MaxDepth :
               (IsChain(d) /\ d <= RecursionLimit /\ is_in_date_range(0))
                   => Len(comments_data) = d

\* C12 witness: two top-level comments, the first with two replies, all four
\* emitted.
C12_Witness ==
    /\ walk_out.done
    /\ Len(comments_data) = 4
    /\ comments_data[1].id = <<1>>
    /\ comments_data[2].id = <<1, 1>>
    /\ comments_data[3].id = <<1, 2>>
    /\ comments_data[4].id = <<2>>

\* ------------------------------------------------------ comment requests
\* The step appended a submission to posts_data.
Appended == Len(posts_data') = Len(posts_data) + 1

GivenTotal == Len(posts_data) + Len(comments_data)
GivenValues(c) ==
    {posts_data[n][c] : n \in 1..Len(posts_data)}
        \cup {comments_data[n][c] : n \in 1..Len(comments_data)}

\* C14: calculate_basic_stats returns total_volume = post_count + comment_count,
\* the two counts being the lengths of the collections given, empty or not.
C14_TotalVolume ==
    result.op = "calculate_basic_stats" =>
        /\ result.value.post_count = Len(posts_data)
        /\ result.value.comment_count = Len(comments_data)
        /\ result.value.total_volume = Len(posts_data) + Len(comments_data)

\* C14 witness: basic statistics of two posts and one comment.
C14_Witness ==
    /\ result.op = "calculate_basic_stats"
    /\ Len(posts_data) = 2
    /\ Len(comments_data) = 1
    /\ result.value.total_volume = 3

\* C15 as stated: the counts of the forum histogram sum to post_count +
\* comment_count, whatever the number of distinct forums.
C15_Original ==
    result.op = "get_subreddit_distribution" =>
        SumCounts(result.value) = GivenTotal

\* C15 amended: every entry of the histogram is the number of posts and comments
\* of its forum; the counts sum to post_count + comment_count when the
\* collection has at most top_n distinct forums, and otherwise the histogram
\* has top_n entries whose counts sum to less.
C15_Amended ==
    result.op = "get_subreddit_distribution" =>
        LET distinct == Cardinality(GivenValues("subreddit"))
            hist == result.value
        IN  /\ \A m \in 1..Len(hist) :
                 hist[m].count =
                     Cardinality({n \in 1..Len(posts_data) :
                                    posts_data[n].subreddit = hist[m].key})
                     + Cardinality({n \in 1..Len(comments_data) :
                                      comments_data[n].subreddit = hist[m].key})
            /\ distinct <= result.top_n => SumCounts(hist) = GivenTotal
            /\ distinct > result.top_n =>
                 (Len(hist) = result.top_n /\ SumCounts(hist) < GivenTotal)

\* C15 witness: two forums, a histogram cut to its first entry.
C15_Witness ==
    /\ result.op = "get_subreddit_distribution"
    /\ result.top_n = 1
    /\ Cardinality(GivenValues("subreddit")) = 2
    /\ Len(result.value) = 1
    /\ SumCounts(result.value) < GivenTotal

\* C16: unique_users is the number of distinct authors of posts and comments
\* other than '[deleted]' and 'AutoModerator', and neither is a key of what
\* get_top_users returns.
C16_SentinelsExcluded ==
    /\ result.op = "calculate_basic_stats" =>
          result.value.unique_users
              = Cardinality(GivenValues("author") \ Sentinels)
    /\ result.op = "get_top_users" =>
          \A m \in 1..Len(result.value) : result.value[m].key \notin Sentinels

\* C16 witness: '[deleted]' wrote two posts, AutoModerator a comment, and one
\* user is counted.
C16_Witness ==
    /\ result.op = "calculate_basic_stats"
    /\ Cardinality({n \in 1..Len(posts_data) :
                      posts_data[n].author = "[deleted]"}) = 2
    /\ \E n \in 1..Len(comments_data) : comments_data[n].author = "AutoModerator"
    /\ result.value.unique_users = 1

\* C17: get_engagement_stats returns 0 for every post statistic when the posts
\* are empty and 0 for every comment statistic when the comments are empty,
\* each whatever the other collection holds.
C17_EmptyIsZero ==
    result.op = "get_engagement_stats" =>
        /\ posts_data = <<>> =>
              /\ result.value.avg_post_score = Zero
              /\ result.value.median_post_score = Zero
              /\ result.value.total_post_score = 0
              /\ result.value.avg_comments_per_post = Zero
        /\ comments_data = <<>> =>
              /\ result.value.avg_comment_score = Zero
              /\ result.value.median_comment_score = Zero
              /\ result.value.total_comment_score = 0

\* C17 witness: engagement statistics of no posts and one comment.
C17_Witness ==
    /\ result.op = "get_engagement_stats"
    /\ posts_data = <<>>
    /\ Len(comments_data) = 1
    /\ result.value.avg_post_score = Zero
    /\ result.value.avg_comment_score # Zero

\* C19: whatever aggregator calls came before, an operation returns what it
\* returns on an analyzer freshly built from the same collections.
C19_Idempotent ==
    LET pdf == init_frame(posts_data)
        cdf == init_frame(comments_data)
    IN  /\ result.op = "calculate_basic_stats" =>
              result.value = calculate_basic_stats(pdf, cdf)
        /\ result.op = "get_subreddit_distribution" =>
              result.value = get_subreddit_distribution(pdf, cdf, result.top_n)
        /\ result.op = "get_time_distribution" =>
              result.value = get_time_distribution(pdf, cdf)
        /\ result.op = "get_engagement_stats" =>
              result.value = get_engagement_stats(pdf, cdf)
        /\ result.op = "get_top_posts" =>
              result.value = get_top_posts(pdf, result.top_n)
        /\ result.op = "get_top_users" =>
              result.value = get_top_users(pdf, cdf, result.top_n)

\* C19 witness: get_top_posts answered after get_time_distribution had written
\* its 'date' column.
C19_Witness ==
    /\ result.op = "get_top_posts"
    /\ "date" \in posts_df.columns
    /\ Len(result.value) = 2

\* C20: get_top_posts(top_n) returns min(top_n, post_count) posts, by score
\* descending, equal scores in the order of the collection, and no post left
\* out has a higher score than one returned.
C20_TopPosts ==
    result.op = "get_top_posts" =>
        LET top == result.value
            chosen == {top[m].title : m \in 1..Len(top)}
        IN  /\ Len(top) = Min(result.top_n, Len(posts_data))
            /\ \A m \in 1..Len(top) :
                 /\ top[m].title \in 1..Len(posts_data)
                 /\ top[m] = [c \in TopPostColumns |-> posts_data[top[m].title][c]]
            /\ \A m \in 1..(Len(top) - 1) :
                 \/ top[m].score > top[m + 1].score
                 \/ top[m].score = top[m + 1].score
                      /\ top[m].title < top[m + 1].title
            /\ \A j \in 1..Len(posts_data), m \in 1..Len(top) :
                 j \notin chosen => posts_data[j].score <= top[m].score

\* --------------------------------------------------- the topic extractor
\* The mentions of a topic: the counts of the extracted keywords on its list.
Mentions(t) ==
    SumCounts(SelectSeq(extract_keywords(posts_data, comments_data, ClusterKeywords),
                        LAMBDA e : e.key \in topic_patterns[t].patterns))
Matched == {t \in 1..Len(topic_patterns) : Mentions(t) > 0}

\* C18: extract_topic_clusters returns only topics with a matched keyword, each
\* with total_mentions the sum of the frequencies of the extracted keywords on
\* its list, ordered by total_mentions descending and cut to top_n, no topic
\* left out having more mentions than one returned; the frequencies fast 5,
\* slow 3, price 10 give price with 10 first, then performance with 8.
C18_TopicClusters ==
    result.op = "extract_topic_clusters" =>
        LET top == result.value
            returned == {top[m].topic : m \in 1..Len(top)}
        IN  /\ Len(top) = Min(result.top_n, Cardinality(Matched))
            /\ \A m \in 1..Len(top) :
                 \E t \in Matched :
                    /\ top[m].topic = topic_patterns[t].topic
                    /\ top[m].total_mentions = Mentions(t)
            /\ \A m \in 1..(Len(top) - 1) :
                 /\ top[m].total_mentions >= top[m + 1].total_mentions
                 /\ top[m].topic # top[m + 1].topic
            /\ \A t \in Matched, m \in 1..Len(top) :
                 topic_patterns[t].topic \notin returned
                     => Mentions(t) <= top[m].total_mentions
            /\ (posts_data = ExamplePosts /\ result.top_n = 2) =>
                 /\ top[1].topic = "price" /\ top[1].total_mentions = 10
                 /\ top[2].topic = "performance" /\ top[2].total_mentions = 8

\* C18 witness: the topics of the example, price before performance.
C18_Witness ==
    /\ result.op = "extract_topic_clusters"
    /\ posts_data = ExamplePosts
    /\ result.top_n = 2
    /\ Len(result.value) = 2
    /\ result.value[1].topic = "price"
    /\ result.value[2].total_mentions = 8

\* ------------------------------------------------------ payload tolerance
\* C21: a submission that lacks a field never cuts the search of its subreddit
\* short: no _search_subreddit call ends on a KeyError over a missing key, so
\* the rest of the page and the later pages are still processed.
C21_MissingFieldsTolerated == last_exit.how # "key_error"

\* ---------------------------------------------------- the walker's nodes
\* Every node of a listing, with its subtree.
RECURSIVE AllNodes(_)
AllNodes(list) ==
    UNION {{list[n]} \cup AllNodes(list[n].replies) : n \in 1..Len(list)}

\* Node a is a proper ancestor of node x.
IsAncestor(a, x) ==
    Len(a.id) < Len(x.id) /\ SubSeq(x.id, 1, Len(a.id)) = a.id

\* The node is a comment with a non-empty body, created inside the window.
EmitsItself(x) ==
    /\ x.kind = "t1"
    /\ x.missing # "body"
    /\ x.body # ""
    /\ InEpochWindow(x.created_utc)

\* C22: each node is decided on its own.  A node that is not a 't1', and every
\* node below it, emits nothing; a 't1' with an empty or missing body or an
\* out-of-window timestamp emits nothing itself; and a node that is a 't1' with
\* a body in the window is emitted whenever all its ancestors are 't1' nodes,
\* whether or not those ancestors were emitted.
C22_NodeByNode ==
    (walk_out.done /\ ~walk_out.raised) =>
        \A x \in AllNodes(walk_in) :
            (\E m \in 1..Len(comments_data) : comments_data[m].id = x.id)
                <=> /\ EmitsItself(x)
                    /\ \A a \in AllNodes(walk_in) :
                           IsAncestor(a, x) => a.kind = "t1"

\* C22 witness: the first top-level comment lacks a body, the second is out of
\* the window, the third node is not a comment; the replies of the first two
\* are emitted, the reply of the third is not.
C22_Witness ==
    /\ walk_out.done
    /\ ~walk_out.raised
    /\ Len(walk_in) = 2
    /\ walk_in[1].kind = "t1" /\ walk_in[1].missing = "body"
    /\ walk_in[2].kind = "more" /\ Len(walk_in[2].replies) = 1
    /\ EmitsItself(walk_in[2].replies[1])
    /\ Len(walk_in[1].replies) = 2
    /\ walk_in[1].replies[1].kind = "t1" /\ walk_in[1].replies[1].body = ""
    /\ EmitsItself(walk_in[1].replies[2])
    /\ Len(comments_data) = 1
    /\ comments_data[1].id = <<1, 2>>

\* ------------------------------------------------------------ crawl order
\* The sequence `old` is the beginning of the sequence `new`.
IsPrefix(old, new) ==
    Len(old) <= Len(new) /\ SubSeq(new, 1, Len(old)) = old

\* C23: the collections only grow at the end.  A step appends at most one post,
\* behind every post of the subreddits searched before (log counts them, in
\* the configured order); the comments a step appends belong to the post
\* appended last, come behind the comments of all earlier posts and stand in
\* the order of the walk (a comment before its reply); no stored record is
\* removed, moved or changed.
C23_CrawlOrder ==
    [][/\ IsPrefix(posts_data, posts_data')
       /\ IsPrefix(comments_data, comments_data')
       /\ IsPrefix(log, log')
       /\ Len(posts_data') <= Len(posts_data) + 1
       /\ Appended =>
            /\ k = Len(log) + 1
            /\ Len(posts_data) = SumPosts(log) + collected_count
       /\ \A m \in (Len(comments_data) + 1)..Len(comments_data') :
            /\ posts_data' = posts_data
            /\ posts_data # <<>>
            /\ comments_data'[m].post_id = posts_data[Len(posts_data)].id
            /\ cur_id = posts_data[Len(posts_data)].id
            /\ m > Len(comments_data) + 1 =>
                   comments_data'[m - 1].id < comments_data'[m].id
      ]_vars

\* C23 witness: a finished run over two subreddits that both contributed; the
\* first post's comment stands before the last post's comment.
C23_Witness ==
    /\ pc = "done"
    /\ Len(log) = 2
    /\ log[1].posts > 0
    /\ log[2].posts > 0
    /\ Len(comments_data) = 2
    /\ posts_data[1].id # posts_data[Len(posts_data)].id
    /\ comments_data[1].post_id = posts_data[1].id
    /\ comments_data[2].post_id = posts_data[Len(posts_data)].id

\* ---------------------------------------------------------- one request
\* C24: a request in flight is answered by the one GET that was issued: the
\* step that ends _make_request starts no further request, and whatever the
\* outcome (transport error, timeout, error status, a body that is not JSON)
\* no exception leaves _make_request.
C24_OneGetNoRaise ==
    [][(pc \in {"page_wait", "comments_wait"}) =>
          (/\ pc' \notin {"page_wait", "comments_wait"}
           /\ last_gap' = 0 - 1
           /\ last_exit'.how # "fetch_raised")]_vars

\* ------------------------------------------------------ the sentiment pass
SentimentFields == {"sentiment_polarity", "sentiment_subjectivity", "sentiment"}

\* The enriched list has no records, or one record per record of the input, in
\* the order of the input, each its input record plus the sentiment fields.
Enriches(enriched, input) ==
    /\ Len(enriched) \in {0, Len(input)}
    /\ \A j \in 1..Len(enriched) :
          /\ j <= Len(input)
          /\ DOMAIN enriched[j] = DOMAIN input[j] \cup SentimentFields
          /\ \A c \in DOMAIN input[j] : enriched[j][c] = input[j][c]

\* C25: whatever calls of analyze_posts and analyze_comments were made on an
\* analyzer, posts_with_sentiment holds exactly one record per post and
\* comments_with_sentiment exactly one record per comment, in input order, each
\* the input record plus the three sentiment fields.
C25_OnePerRecord ==
    /\ Enriches(posts_with_sentiment, posts_data)
    /\ Enriches(comments_with_sentiment, comments_data)

\* ------------------------------------------------- referential integrity
\* The ids of the posts of a collection.
PostIds(posts) == {posts[n].id : n \in 1..Len(posts)}

\* C26: every stored comment carries the id of a stored post; the comments a
\* step appends carry the id of a post that was stored before the step; and a
\* step that passes over a submission outside the window requests no comments
\* and stores none.
C26_ReferentialIntegrity ==
    [][/\ \A m \in 1..Len(comments_data') :
            comments_data'[m].post_id \in PostIds(posts_data')
       /\ \A m \in (Len(comments_data) + 1)..Len(comments_data') :
            comments_data'[m].post_id \in PostIds(posts_data)
       /\ out_seen' =>
            (pc' # "comments_wait" /\ comments_data' = comments_data)
       /\ pc' = "comments_wait" => cur_id' \in PostIds(posts_data')
      ]_vars

\* C26 witness: three posts are stored, a submission outside the window has
\* just been passed over, and the two stored comments belong to two different
\* stored posts.
C26_Witness ==
    /\ out_seen
    /\ Len(posts_data) = 3
    /\ Len(comments_data) = 2
    /\ comments_data[1].post_id # comments_data[2].post_id
    /\ comments_data[1].post_id = posts_data[1].id
    /\ comments_data[2].post_id = posts_data[3].id

\* ------------------------------------------------- comment-fetch failures
\* C27: whatever ends a _fetch_comments call (a failed request, a listing that
\* cannot be read, an exception inside the walk), the search of the subreddit
\* is not left: the for loop moves to the next submission of the same page,
\* the post stays stored and counted, the comments stored before stay, and
\* the comments the walk appended before it failed stay behind them.
C27_FetchContained ==
    [][(pc = "comments_wait") =>
          (/\ pc' = "for"
           /\ i' = i + 1
           /\ posts_data' = posts_data
           /\ IsPrefix(comments_data, comments_data')
           /\ UNCHANGED <<k, collected_count, data, after, log, last_exit>>)]_vars

\* C27 witness: the walk of the second post's tree has just raised after it
\* appended one comment; that comment stands behind the first post's comment,
\* both posts are stored, and a submission of the page is still to come.
C27_Witness ==
    /\ walk_raised
    /\ pc = "for"
    /\ i <= data.len
    /\ Len(posts_data) = 2
    /\ Len(comments_data) = 2
    /\ comments_data[1].post_id = posts_data[1].id
    /\ comments_data[2].post_id = posts_data[2].id
    /\ posts_data[1].id # posts_data[2].id

\* ------------------------------------------------- unreachable keywords
\* The taxonomy entries that are a stop word or shorter than three characters.
Unreachable == {"like", "vs"}

\* How often the words of a set occur in the cleaned text of the collections.
Occurrences(set) ==
    Len(SelectSeq(clean_text(extract_text_from_data(posts_data, comments_data)),
                  LAMBDA w : w \in set))

\* C28: extract_keywords emits no stop word and no word of fewer than three
\* characters; so no cluster lists 'like' or 'vs' among its keywords, and the
\* total_mentions of a cluster counts the occurrences of the other words of
\* its list only, whatever the text.
C28_UnreachableKeywords ==
    /\ result.op = "extract_keywords" =>
          \A m \in 1..Len(result.value) :
              /\ result.value[m].key \notin stop_words
              /\ Len(result.value[m].key) >= 3
    /\ result.op = "extract_topic_clusters" =>
          \A m \in 1..Len(result.value) :
              /\ \A j \in 1..Len(result.value[m].keywords) :
                    result.value[m].keywords[j].key \notin Unreachable
              /\ \E t \in 1..Len(topic_patterns) :
                    /\ topic_patterns[t].topic = result.value[m].topic
                    /\ result.value[m].total_mentions =
                          Occurrences(topic_patterns[t].patterns \ Unreachable)

\* C28 witness: the title reads 'like vs', the selftext 'fast' and the comment
\* 'like'; the only cluster returned is performance, with one mention.
C28_Witness ==
    /\ result.op = "extract_topic_clusters"
    /\ result.top_n = 2
    /\ Len(posts_data) = 1
    /\ posts_data[1].title = <<"like", "vs">>
    /\ posts_data[1].selftext = <<"fast">>
    /\ Len(comments_data) = 1
    /\ comments_data[1].body = <<"like">>
    /\ Len(result.value) = 1
    /\ result.value[1].topic = "performance"
    /\ result.value[1].total_mentions = 1
====
